---- MODULE Spec2Model ----
(***************************************************************************)
(* Telemetry log analyser (src/Sofwtare.py): load_data, the geodesic       *)
(* helpers, process_telemetry_data and the top-level script that wires     *)
(* them to the page.                                                       *)
(*                                                                         *)
(* Numbers.  The program computes in IEEE doubles; the model computes in   *)
(* exact rationals [num, den] (den > 0, lowest terms).  den = 0 stands for *)
(* the non-finite doubles: num = 0 is NaN, num = 1 is +inf, num = -1 is    *)
(* -inf.  Latitudes and longitudes are drawn from multiples of 90 degrees, *)
(* where every sine and cosine the code takes is rational, and pi is the   *)
(* rational 157/50.                                                        *)
(*                                                                         *)
(* Tables.  A DataFrame is [columns, rows]: a set of column names and a    *)
(* sequence of rows, each row a function from the column names to cells.   *)
(* A cell is a number, or a text [text |-> s].                             *)
(***************************************************************************)
EXTENDS Integers, Sequences, FiniteSets

VARIABLES
    pc,             \* position of the script run (lines 86-172)
    uploaded_file,  \* st.file_uploader's value, NoFile when nothing is uploaded
    df_raw,         \* line 92
    df_processed,   \* line 100
    page,           \* what the run has put on the page, in order
    calls,          \* the functions the run has invoked, in order
    arg,            \* a direct call of process_telemetry_data: its argument
    ret             \* ... and its return value, NotCalled before the call

vars == <<pc, uploaded_file, df_raw, df_processed, page, calls, arg, ret>>

-----------------------------------------------------------------------------
(* Bounds *)

\* the most rows of a table
MaxLen == 3

-----------------------------------------------------------------------------
(* Arithmetic *)

Abs(x) == IF x < 0 THEN -x ELSE x

Sign(x) == IF x < 0 THEN -1 ELSE IF x > 0 THEN 1 ELSE 0

RECURSIVE Gcd(_, _)
Gcd(a, b) == IF b = 0 THEN a ELSE Gcd(b, a % b)

\* the rational n/d, d # 0, in lowest terms with a positive denominator
Rat(n, d) ==
    LET g == Gcd(Abs(n), Abs(d))
    IN  [num |-> Sign(d) * (n \div g), den |-> Abs(d) \div g]

NaN == [num |-> 0, den |-> 0]

Inf(s) == [num |-> s, den |-> 0]

Zero == Rat(0, 1)

IsNumber(x) == DOMAIN x = {"num", "den"}

IsFinite(x) == x.den # 0

IsNaN(x) == x.den = 0 /\ x.num = 0

RNeg(a) == [num |-> -a.num, den |-> a.den]

RAdd(a, b) ==
    IF IsFinite(a) /\ IsFinite(b)
    THEN LET g == Gcd(a.den, b.den)
         IN  Rat(a.num * (b.den \div g) + b.num * (a.den \div g),
                 (a.den \div g) * b.den)
    ELSE IF IsFinite(a) THEN b
    ELSE IF IsFinite(b) THEN a
    ELSE IF a.num = b.num THEN a ELSE NaN

RSub(a, b) == RAdd(a, RNeg(b))

RMul(a, b) ==
    IF IsFinite(a) /\ IsFinite(b)
    THEN LET g1 == Gcd(Abs(a.num), b.den)
             g2 == Gcd(Abs(b.num), a.den)
         IN  Rat((a.num \div g1) * (b.num \div g2),
                 (a.den \div g2) * (b.den \div g1))
    ELSE IF IsNaN(a) \/ IsNaN(b) \/ a.num = 0 \/ b.num = 0 THEN NaN
    ELSE Inf(Sign(a.num) * Sign(b.num))

\* float division: x/0 is +-inf, 0/0 is NaN, x/inf is 0
RDiv(a, b) ==
    IF IsFinite(a) /\ IsFinite(b)
    THEN IF b.num # 0 THEN RMul(a, Rat(b.den, b.num))
         ELSE IF a.num = 0 THEN NaN ELSE Inf(Sign(a.num))
    ELSE IF IsNaN(a) \/ IsNaN(b) THEN NaN
    ELSE IF IsFinite(b) THEN Inf(Sign(a.num) * (IF b.num < 0 THEN -1 ELSE 1))
    ELSE IF IsFinite(a) THEN Zero
    ELSE NaN

\* a > b; false when either is NaN.  Finite values are compared by their
\* integer parts first and by their fractional parts otherwise.
RGt(a, b) ==
    IF IsFinite(a) /\ IsFinite(b)
    THEN LET fa == a.num \div a.den
             fb == b.num \div b.den
         IN  IF fa # fb THEN fa > fb
             ELSE (a.num % a.den) * b.den > (b.num % b.den) * a.den
    ELSE IF IsNaN(a) \/ IsNaN(b) THEN FALSE
    ELSE IF IsFinite(a) THEN b.num = -1
    ELSE IF IsFinite(b) THEN a.num = 1
    ELSE a.num > b.num

RGeq(a, b) == ~IsNaN(a) /\ ~IsNaN(b) /\ ~RGt(b, a)

-----------------------------------------------------------------------------
(* Geodesic helpers *)

EARTH_RADIUS_METERS == 6371000

\* pi, to three digits
Pi == Rat(157, 50)

\* a whole number of degrees held in a cell
Deg(x) == x.num

\* np.cos(np.radians(d)), d a multiple of 90
Cos(d) == CASE d % 360 = 0 -> 1 [] d % 360 = 180 -> -1 [] OTHER -> 0

\* np.sin(np.radians(d)), d a multiple of 90
Sin(d) == CASE d % 360 = 90 -> 1 [] d % 360 = 270 -> -1 [] OTHER -> 0

\* np.sin(np.radians(d) / 2)**2, d a multiple of 90
SinHalfSq(d) ==
    CASE d % 360 = 0 -> Zero [] d % 360 = 180 -> Rat(1, 1) [] OTHER -> Rat(1, 2)

\* 2 * np.arctan2(np.sqrt(a), np.sqrt(1 - a)): the angle whose haversine is a
TwoArctan2Sqrt(a) ==
    CASE a = Zero -> Zero
      [] a = Rat(1, 2) -> RDiv(Pi, Rat(2, 1))
      [] a = Rat(1, 1) -> Pi
      [] OTHER -> NaN

\* np.degrees(np.arctan2(x, y)) for x, y in {-1, 0, 1}
Arctan2Deg(x, y) ==
    CASE x = 0 /\ y >= 0 -> 0
      [] x = 0 /\ y < 0 -> 180
      [] x > 0 /\ y > 0 -> 45
      [] x > 0 /\ y = 0 -> 90
      [] x > 0 /\ y < 0 -> 135
      [] x < 0 /\ y > 0 -> -45
      [] x < 0 /\ y = 0 -> -90
      [] OTHER -> -135

calculate_haversine_distance(lat1, lon1, lat2, lon2) ==
    IF \E v \in {lat1, lon1, lat2, lon2} : ~IsFinite(v) THEN NaN
    ELSE LET dlon == Deg(lon2) - Deg(lon1)
             dlat == Deg(lat2) - Deg(lat1)
             a == RAdd(SinHalfSq(dlat),
                       RMul(Rat(Cos(Deg(lat1)) * Cos(Deg(lat2)), 1), SinHalfSq(dlon)))
             c == TwoArctan2Sqrt(a)
         IN  RMul(Rat(EARTH_RADIUS_METERS, 1), c)

calculate_bearing(lat1, lon1, lat2, lon2) ==
    IF \E v \in {lat1, lon1, lat2, lon2} : ~IsFinite(v) THEN NaN
    ELSE LET dLon == Deg(lon2) - Deg(lon1)
             x == Cos(Deg(lat2)) * Sin(dLon)
             y == Cos(Deg(lat1)) * Sin(Deg(lat2))
                  - Sin(Deg(lat1)) * Cos(Deg(lat2)) * Cos(dLon)
         IN  Rat((Arctan2Deg(x, y) + 360) % 360, 1)

-----------------------------------------------------------------------------
(* Tables *)

\* pd.DataFrame()
EmptyFrame == [columns |-> {}, rows |-> <<>>]

\* df.empty: no column or no row
Empty(df) == df.columns = {} \/ df.rows = <<>>

NRows(df) == Len(df.rows)

\* df[name]
Col(df, name) == [i \in 1..NRows(df) |-> df.rows[i][name]]

\* df[name] = values: a new column, or the column of that name overwritten
SetCol(df, name, values) ==
    [columns |-> df.columns \cup {name},
     rows |-> [i \in 1..NRows(df) |->
                 [c \in df.columns \cup {name} |->
                    IF c = name THEN values[i] ELSE df.rows[i][c]]]]

\* series.shift(1)
Shift(s) == [i \in 1..Len(s) |-> IF i = 1 THEN NaN ELSE s[i - 1]]

\* the running sum of the values of s up to i that are not NaN
RECURSIVE SumTo(_, _)
SumTo(s, i) ==
    IF i = 0 THEN Zero
    ELSE IF IsNaN(s[i]) THEN SumTo(s, i - 1)
    ELSE RAdd(SumTo(s, i - 1), s[i])

\* series.cumsum(): NaN stays NaN and is left out of the sum
CumSum(s) == [i \in 1..Len(s) |-> IF IsNaN(s[i]) THEN NaN ELSE SumTo(s, i)]

-----------------------------------------------------------------------------
(* process_telemetry_data, one operator per statement *)

\* the guards' threshold, 1e-6
Eps == Rat(1, 1000000)

\* line 49: vel / 3.6
AddVelMps(df) ==
    SetCol(df, "vel_mps",
           [i \in 1..NRows(df) |-> RDiv(df.rows[i]["vel"], Rat(18, 5))])

\* lines 50-52
AddPrev(df) ==
    LET d1 == SetCol(df, "lat_prev", Shift(Col(df, "lat")))
        d2 == SetCol(d1, "lng_prev", Shift(Col(d1, "lng")))
    IN  SetCol(d2, "vel_mps_prev", Shift(Col(d2, "vel_mps")))

\* FixRow0 gone wrong: the hole shift(1) leaves in row 0 filled with 0
FixRow0FillZero(df) ==
    LET row == df.rows[1]
    IN  [df EXCEPT !.rows[1] =
            [row EXCEPT !["lat_prev"] = Zero,
                        !["lng_prev"] = Zero,
                        !["vel_mps_prev"] = Zero]]

\* lines 53-54: row 0's previous values are its own
FixRow0(df) ==
    LET row == df.rows[1]
    IN  [df EXCEPT !.rows[1] =
            [row EXCEPT !["lat_prev"] = row["lat"],
                        !["lng_prev"] = row["lng"],
                        !["vel_mps_prev"] = row["vel_mps"]]]

\* lines 55-59
AddDeltaDistance(df) ==
    SetCol(df, "delta_distance_m",
           [i \in 1..NRows(df) |->
              LET row == df.rows[i]
              IN  calculate_haversine_distance(
                      row["lat_prev"], row["lng_prev"], row["lat"], row["lng"])])

\* line 60
AddAvgVel(df) ==
    SetCol(df, "avg_vel_mps",
           [i \in 1..NRows(df) |->
              RDiv(RAdd(df.rows[i]["vel_mps"], df.rows[i]["vel_mps_prev"]),
                   Rat(2, 1))])

\* mask_vel_pos gone wrong: the magnitude of the average speed is guarded
mask_vel_abs(df) ==
    [i \in 1..NRows(df) |->
       LET avg == df.rows[i]["avg_vel_mps"]
       IN  RGt(avg, Eps) \/ RGt(RNeg(avg), Eps)]

\* line 62
mask_vel_pos(df) == [i \in 1..NRows(df) |-> RGt(df.rows[i]["avg_vel_mps"], Eps)]

\* AddDeltaT gone wrong: the distance divided by the current speed
AddDeltaTBySpeed(df) ==
    LET mask == [i \in 1..NRows(df) |-> RGt(df.rows[i]["avg_vel_mps"], Eps)]
    IN  SetCol(df, "delta_t_s",
               [i \in 1..NRows(df) |->
                  IF mask[i]
                  THEN RDiv(df.rows[i]["delta_distance_m"], df.rows[i]["vel_mps"])
                  ELSE Zero])

\* lines 61-66
AddDeltaT(df) ==
    LET mask == mask_vel_pos(df)
    IN  SetCol(df, "delta_t_s",
               [i \in 1..NRows(df) |->
                  IF mask[i]
                  THEN RDiv(df.rows[i]["delta_distance_m"], df.rows[i]["avg_vel_mps"])
                  ELSE Zero])

\* AddTime gone wrong: the cumsum left out
AddTimeNoCumSum(df) == SetCol(df, "time_s", Col(df, "delta_t_s"))

\* line 67
AddTime(df) == SetCol(df, "time_s", CumSum(Col(df, "delta_t_s")))

\* AddDeltaV gone wrong: the difference taken the other way round
AddDeltaVReversed(df) ==
    SetCol(df, "delta_v_mps",
           [i \in 1..NRows(df) |->
              RSub(df.rows[i]["vel_mps_prev"], df.rows[i]["vel_mps"])])

\* line 68
AddDeltaV(df) ==
    SetCol(df, "delta_v_mps",
           [i \in 1..NRows(df) |->
              RSub(df.rows[i]["vel_mps"], df.rows[i]["vel_mps_prev"])])

\* line 70
mask_time_pos(df) == [i \in 1..NRows(df) |-> RGt(df.rows[i]["delta_t_s"], Eps)]

\* lines 69-75
AddAcceleration(df) ==
    LET mask == mask_time_pos(df)
        d1 == SetCol(df, "acceleration_mpss",
                     [i \in 1..NRows(df) |->
                        IF mask[i]
                        THEN RDiv(df.rows[i]["delta_v_mps"], df.rows[i]["delta_t_s"])
                        ELSE Zero])
    IN  [d1 EXCEPT !.rows[1]["acceleration_mpss"] = Zero]

\* lines 76-80
AddBearing(df) ==
    SetCol(df, "bearing",
           [i \in 1..NRows(df) |->
              LET row == df.rows[i]
              IN  calculate_bearing(
                      row["lat_prev"], row["lng_prev"], row["lat"], row["lng"])])

\* line 81
AddIcon(df) == SetCol(df, "icon", [i \in 1..NRows(df) |-> [text |-> "arrow"]])

\* process_telemetry_data gone wrong: the row shift(1) left without a
\* predecessor dropped, as dropna() would
process_telemetry_data_dropna(df) ==
    IF Empty(df) THEN EmptyFrame
    ELSE LET out ==
                 AddIcon(AddBearing(AddAcceleration(AddDeltaV(AddTime(AddDeltaT(
                 AddAvgVel(AddDeltaDistance(FixRow0(AddPrev(AddVelMps(df)))))))))))
         IN  [out EXCEPT !.rows = Tail(out.rows)]

process_telemetry_data(df) ==
    IF Empty(df) THEN EmptyFrame
    ELSE AddIcon(AddBearing(AddAcceleration(AddDeltaV(AddTime(AddDeltaT(
         AddAvgVel(AddDeltaDistance(FixRow0(AddPrev(AddVelMps(df)))))))))))

\* line 49 raises TypeError when the vel column holds text (an object column
\* divided by a float); nothing in the script catches it
RaisesTypeError(df) ==
    ~Empty(df) /\ \E i \in 1..NRows(df) : ~IsNumber(df.rows[i]["vel"])

-----------------------------------------------------------------------------
(* load_data *)

\* line 16
required_cols == <<"lat", "lng", "vel">>

NoError == [kind |-> "none", text |-> "", cols |-> <<>>]

\* load_data gone wrong: the error shown, but the table returned all the same
load_data_keeps_table(file) ==
    IF ~file.parsable
    THEN [df |-> EmptyFrame,
          error |-> [kind |-> "error", text |-> "Erro ao ler o arquivo", cols |-> <<>>]]
    ELSE IF ~(\A k \in 1..Len(required_cols) : required_cols[k] \in file.table.columns)
    THEN [df |-> file.table,
          error |-> [kind |-> "error",
                     text |-> "O arquivo CSV deve conter as colunas",
                     cols |-> required_cols]]
    ELSE [df |-> file.table, error |-> NoError]

\* load_data gone wrong: any() for all(), one required column is enough
load_data_any(file) ==
    IF ~file.parsable
    THEN [df |-> EmptyFrame,
          error |-> [kind |-> "error", text |-> "Erro ao ler o arquivo", cols |-> <<>>]]
    ELSE IF ~(\E k \in 1..Len(required_cols) : required_cols[k] \in file.table.columns)
    THEN [df |-> EmptyFrame,
          error |-> [kind |-> "error",
                     text |-> "O arquivo CSV deve conter as colunas",
                     cols |-> required_cols]]
    ELSE [df |-> file.table, error |-> NoError]

\* lines 14-23: the table read, or an empty table and the st.error shown
load_data(file) ==
    IF ~file.parsable
    THEN [df |-> EmptyFrame,
          error |-> [kind |-> "error", text |-> "Erro ao ler o arquivo", cols |-> <<>>]]
    ELSE IF ~(\A k \in 1..Len(required_cols) : required_cols[k] \in file.table.columns)
    THEN [df |-> EmptyFrame,
          error |-> [kind |-> "error",
                     text |-> "O arquivo CSV deve conter as colunas",
                     cols |-> required_cols]]
    ELSE [df |-> file.table, error |-> NoError]

-----------------------------------------------------------------------------
(* Inputs *)

\* (lat, lng) in degrees
Positions == {<<0, 0>>, <<0, 180>>, <<90, 0>>}

\* ... of the rows of an uploaded file
UploadPositions == {<<0, 0>>, <<0, 180>>}

\* 36 km/h is 10 m/s
Cruise == Rat(36, 1)

\* 3.6e-6 km/h is 1e-6 m/s, the guards' threshold
Micro == Rat(9, 2500000)

\* vel in km/h
Speeds == {RNeg(Cruise), Zero, Micro, Cruise}

\* the vel cells of an uploaded file, one of them no number
UploadSpeeds == {Zero, Cruise, [text |-> "abc"]}

\* the names of an extra column of the file
ExtraColumnSets == {{}, {"note"}, {"icon"}}

Sample(pos, vel) ==
    [lat |-> Rat(pos[1], 1), lng |-> Rat(pos[2], 1), vel |-> vel]

SamePosition(r1, r2) == r1.lat = r2.lat /\ r1.lng = r2.lng

\* A step from the micro speed to the cruise speed, or back, stays in
\* place: the elapsed time of such a step over a quarter of the globe is
\* beyond the 32-bit integers of TLC.
InRange(s) ==
    \A i \in 2..Len(s) :
        \/ SamePosition(s[i - 1], s[i])
        \/ ~IsNumber(s[i - 1].vel)
        \/ ~IsNumber(s[i].vel)
        \/ ~(\/ s[i - 1].vel = Micro /\ s[i].vel = Cruise
             \/ s[i - 1].vel = Cruise /\ s[i].vel = Micro)

SampleSeqs(positions, speeds, n) ==
    LET samples == {Sample(pos, vel) : pos \in positions, vel \in speeds}
    IN  {s \in UNION {[1..k -> samples] : k \in 0..n} : InRange(s)}

\* the table with columns lat, lng, vel and the extra ones, a row per sample
MakeTable(extra, s) ==
    [columns |-> {"lat", "lng", "vel"} \cup extra,
     rows |-> [i \in 1..Len(s) |->
                 [c \in {"lat", "lng", "vel"} \cup extra |->
                    CASE c = "lat" -> s[i].lat
                      [] c = "lng" -> s[i].lng
                      [] c = "vel" -> s[i].vel
                      [] OTHER -> [text |-> "x"]]]]

\* numeric traces of at most n rows
Traces(n) ==
    {MakeTable(extra, s) : extra \in ExtraColumnSets, s \in SampleSeqs(Positions, Speeds, n)}

\* headers that lack a required column
BadHeaders ==
    {{"latitude", "longitude", "speed"}, {"Lat", "Lng", "Vel"}, {"lat", "lng", "Vel"},
     {"lat", "lng"}, {"lat", "vel"}, {"lng", "vel"}, {"vel", "note"}}

BadTables ==
    {[columns |-> h, rows |-> [i \in 1..k |-> [c \in h |-> Zero]]] :
        h \in BadHeaders, k \in 0..1}

File(parsable, table) == [present |-> TRUE, parsable |-> parsable, table |-> table]

\* st.file_uploader returned None
NoFile == [present |-> FALSE, parsable |-> FALSE, table |-> EmptyFrame]

Files ==
    {File(FALSE, EmptyFrame)}
    \cup {File(TRUE, t) : t \in BadTables}
    \cup {File(TRUE, MakeTable(extra, s)) :
            extra \in ExtraColumnSets,
            s \in SampleSeqs(UploadPositions, UploadSpeeds, MaxLen)}

-----------------------------------------------------------------------------
(* The script, lines 86-172 *)

Widget(kind) == [kind |-> kind, text |-> "", cols |-> <<>>]

Init ==
    /\ pc = "idle"
    /\ uploaded_file = NoFile
    /\ df_raw = EmptyFrame
    /\ df_processed = EmptyFrame
    /\ page = <<>>
    /\ calls = <<>>
    /\ arg = EmptyFrame
    /\ ret = [called |-> FALSE, value |-> EmptyFrame]

\* line 88: the user uploads a file, and the script runs from the top
Upload(f) ==
    /\ pc = "idle"
    /\ uploaded_file' = f
    /\ pc' = "run"
    /\ df_raw' = EmptyFrame
    /\ df_processed' = EmptyFrame
    /\ page' = <<>>
    /\ calls' = <<>>
    /\ UNCHANGED <<arg, ret>>

\* line 88: the user clears the uploader; the rerun stops at line 90, and the
\* next upload starts from there
RemoveFile ==
    /\ pc \in {"done", "raised"}
    /\ uploaded_file' = NoFile
    /\ pc' = "idle"
    /\ df_raw' = EmptyFrame
    /\ df_processed' = EmptyFrame
    /\ page' = <<>>
    /\ calls' = <<>>
    /\ UNCHANGED <<arg, ret>>

\* lines 90-92
LoadData ==
    /\ pc = "run"
    /\ LET r == load_data(uploaded_file)
       IN  /\ df_raw' = r.df
           /\ page' = IF r.error = NoError THEN page ELSE Append(page, r.error)
    /\ calls' = Append(calls, "load_data")
    /\ pc' = "loaded"
    /\ UNCHANGED <<uploaded_file, df_processed, arg, ret>>

\* lines 94-96: the preview of the raw rows
ShowRaw ==
    /\ pc = "loaded"
    /\ ~Empty(df_raw)
    /\ page' = Append(page, Widget("raw_preview"))
    /\ pc' = "process"
    /\ UNCHANGED <<uploaded_file, df_raw, df_processed, calls, arg, ret>>

\* line 94, the condition false: the run ends
SkipEmpty ==
    /\ pc = "loaded"
    /\ Empty(df_raw)
    /\ pc' = "done"
    /\ UNCHANGED <<uploaded_file, df_raw, df_processed, page, calls, arg, ret>>

\* line 100; an exception ends the run, and Streamlit shows it
Process ==
    /\ pc = "process"
    /\ calls' = Append(calls, "process_telemetry_data")
    /\ IF RaisesTypeError(df_raw)
       THEN /\ pc' = "raised"
            /\ page' = Append(page, Widget("exception"))
            /\ UNCHANGED df_processed
       ELSE /\ pc' = "processed"
            /\ df_processed' = process_telemetry_data(df_raw)
            /\ UNCHANGED page
    /\ UNCHANGED <<uploaded_file, df_raw, arg, ret>>

\* lines 102-172
Render ==
    /\ pc = "processed"
    /\ page' = IF ~Empty(df_processed)
               THEN page \o <<Widget("speed_chart"), Widget("accel_chart"),
                              Widget("map"), Widget("success")>>
               ELSE Append(page, [kind |-> "error",
                                  text |-> "Falha ao processar os dados.",
                                  cols |-> <<>>])
    /\ pc' = "done"
    /\ UNCHANGED <<uploaded_file, df_raw, df_processed, calls, arg, ret>>

Next ==
    \/ \E f \in Files : Upload(f)
    \/ RemoveFile
    \/ LoadData
    \/ ShowRaw
    \/ SkipEmpty
    \/ Process
    \/ Render

Spec == Init /\ [][Next]_vars

-----------------------------------------------------------------------------
(* process_telemetry_data called on its own *)

InitProcess ==
    /\ pc = "idle"
    /\ uploaded_file = NoFile
    /\ df_raw = EmptyFrame
    /\ df_processed = EmptyFrame
    /\ page = <<>>
    /\ calls = <<>>
    /\ arg \in Traces(MaxLen) \cup {EmptyFrame}
    /\ ret = [called |-> FALSE, value |-> EmptyFrame]

CallProcess ==
    /\ ~ret.called
    /\ ret' = [called |-> TRUE, value |-> process_telemetry_data(arg)]
    /\ UNCHANGED <<pc, uploaded_file, df_raw, df_processed, page, calls, arg>>

NextProcess == CallProcess

SpecProcess == InitProcess /\ [][NextProcess]_vars

-----------------------------------------------------------------------------
(* Properties of process_telemetry_data, under SpecProcess *)

In == arg

Out == ret.value

\* the rows of a table, as indices
Rows(df) == 1..NRows(df)

IsZero(x) == x = Zero

Moved(df, i) == ~SamePosition(df.rows[i - 1], df.rows[i])

\* the two-row trace made of rows i-1 and i
Pair(df, i) == [df EXCEPT !.rows = <<df.rows[i - 1], df.rows[i]>>]

\* C1: for every non-empty trace of finite samples, whatever the speeds,
\* time_s never decreases from one row to the next and no delta_t_s is
\* negative.
C1_MonotonicTime ==
    (ret.called /\ ~Empty(In)) =>
        /\ \A i \in Rows(Out) : RGeq(Out.rows[i]["delta_t_s"], Zero)
        /\ \A i \in Rows(Out) \ {1} :
              RGeq(Out.rows[i]["time_s"], Out.rows[i - 1]["time_s"])

\* a trace where time advances on one step and stands still on a later step
\* that moves at a negative average speed
C1_Witness ==
    /\ ret.called
    /\ NRows(Out) = 3
    /\ RGt(Out.rows[2]["time_s"], Zero)
    /\ Moved(In, 3)
    /\ RGt(Zero, Out.rows[3]["avg_vel_mps"])
    /\ Out.rows[3]["time_s"] = Out.rows[2]["time_s"]

\* C2: for any non-empty trace, whatever the first sample, row 0 has
\* delta_t_s = 0, time_s = 0 and acceleration_mpss = 0.
C2_ZeroMotionBoundary ==
    (ret.called /\ ~Empty(In)) =>
        /\ IsZero(Out.rows[1]["delta_t_s"])
        /\ IsZero(Out.rows[1]["time_s"])
        /\ IsZero(Out.rows[1]["acceleration_mpss"])

\* a first sample away from the origin, at speed
C2_Witness ==
    /\ ret.called
    /\ ~Empty(In)
    /\ In.rows[1]["vel"] = Cruise
    /\ In.rows[1]["lat"] = Rat(90, 1)
    /\ IsZero(Out.rows[1]["time_s"])

\* C3: in every row delta_t_s is delta_distance_m / avg_vel_mps when
\* avg_vel_mps > 1e-6 and 0 otherwise; a step between two identical points
\* has delta_t_s = 0 at any speed, and so has a step whose two speeds are 0,
\* even when the position changed.
C3_DeltaTGuard ==
    (ret.called /\ ~Empty(In)) =>
        /\ \A i \in Rows(Out) :
              Out.rows[i]["delta_t_s"] =
                  IF RGt(Out.rows[i]["avg_vel_mps"], Eps)
                  THEN RDiv(Out.rows[i]["delta_distance_m"], Out.rows[i]["avg_vel_mps"])
                  ELSE Zero
        /\ \A i \in Rows(Out) \ {1} :
              ~Moved(In, i) => IsZero(Out.rows[i]["delta_t_s"])
        /\ \A i \in Rows(Out) \ {1} :
              (IsZero(In.rows[i]["vel"]) /\ IsZero(In.rows[i - 1]["vel"]))
                  => IsZero(Out.rows[i]["delta_t_s"])

\* a step at speed 0 that moves, then a step at speed that stays in place
C3_Witness ==
    /\ ret.called
    /\ NRows(Out) = 3
    /\ IsZero(In.rows[1]["vel"]) /\ IsZero(In.rows[2]["vel"]) /\ Moved(In, 2)
    /\ RGt(Out.rows[2]["delta_distance_m"], Zero)
    /\ IsZero(Out.rows[2]["delta_t_s"])
    /\ ~Moved(In, 3) /\ RGt(Out.rows[3]["avg_vel_mps"], Eps)
    /\ IsZero(Out.rows[3]["delta_t_s"])

\* C4: in every row after the first, acceleration_mpss is
\* (vel_mps[i] - vel_mps[i-1]) / delta_t_s[i] when delta_t_s[i] > 1e-6 and 0
\* otherwise; row 0 has acceleration 0.
C4_AccelerationGuard ==
    (ret.called /\ ~Empty(In)) =>
        /\ IsZero(Out.rows[1]["acceleration_mpss"])
        /\ \A i \in Rows(Out) \ {1} :
              Out.rows[i]["acceleration_mpss"] =
                  IF RGt(Out.rows[i]["delta_t_s"], Eps)
                  THEN RDiv(RSub(Out.rows[i]["vel_mps"], Out.rows[i - 1]["vel_mps"]),
                            Out.rows[i]["delta_t_s"])
                  ELSE Zero

\* a step that accelerates, then a step in place on which the speed changes
C4_Witness ==
    /\ ret.called
    /\ NRows(Out) = 3
    /\ RGt(Out.rows[2]["acceleration_mpss"], Zero)
    /\ ~RGt(Out.rows[3]["delta_t_s"], Eps)
    /\ Out.rows[3]["vel_mps"] # Out.rows[2]["vel_mps"]
    /\ IsZero(Out.rows[3]["acceleration_mpss"])

\* C5: the output has as many rows as the input, row i of the output holding
\* the lat, lng and vel of row i of the input; the empty trace gives the
\* empty table.
C5_LengthAndOrder ==
    ret.called =>
        /\ NRows(Out) = NRows(In)
        /\ \A i \in Rows(Out) : \A k \in 1..Len(required_cols) :
              Out.rows[i][required_cols[k]] = In.rows[i][required_cols[k]]
        /\ Empty(In) => Out = EmptyFrame

\* three rows, no two alike
C5_Witness ==
    /\ ret.called
    /\ NRows(In) = 3
    /\ NRows(Out) = 3
    /\ Cardinality({In.rows[i] : i \in Rows(In)}) = 3

\* C8: time_s is the running sum of delta_t_s from 0: time_s[0] = 0 and
\* time_s[i] = time_s[i-1] + delta_t_s[i]; delta_t_s[i] is what rows i-1 and
\* i give on their own.
C8_CumulativeTime ==
    (ret.called /\ ~Empty(In)) =>
        /\ IsZero(Out.rows[1]["time_s"])
        /\ \A i \in Rows(Out) \ {1} :
              /\ Out.rows[i]["time_s"] =
                    RAdd(Out.rows[i - 1]["time_s"], Out.rows[i]["delta_t_s"])
              /\ Out.rows[i]["delta_t_s"] =
                    process_telemetry_data(Pair(In, i)).rows[2]["delta_t_s"]

\* two steps that each take time, of different lengths
C8_Witness ==
    /\ ret.called
    /\ NRows(Out) = 3
    /\ RGt(Out.rows[2]["delta_t_s"], Zero)
    /\ RGt(Out.rows[3]["delta_t_s"], Out.rows[2]["delta_t_s"])
    /\ RGt(Out.rows[3]["time_s"], Out.rows[3]["delta_t_s"])

\* C9: every column of the input is in the output with the same value in
\* every row.
C9_ColumnsCarried ==
    ret.called =>
        \A i \in Rows(In) : \A c \in In.columns :
            /\ c \in Out.columns
            /\ Out.rows[i][c] = In.rows[i][c]

-----------------------------------------------------------------------------
(* Properties of the script, under Spec *)

Required == {"lat", "lng", "vel"}

\* the uploaded file cannot be read as a table
Unreadable == uploaded_file.present /\ ~uploaded_file.parsable

\* the uploaded file is a table that lacks a required column
LacksColumn ==
    /\ uploaded_file.present
    /\ uploaded_file.parsable
    /\ \E c \in Required : c \notin uploaded_file.table.columns

Loaded == pc \in {"loaded", "process", "processed", "raised", "done"}

RunEnded == pc \in {"raised", "done"}

Kinds == {page[k].kind : k \in 1..Len(page)}

Invoked(f) == \E k \in 1..Len(calls) : calls[k] = f

MissingColumnsError ==
    [kind |-> "error", text |-> "O arquivo CSV deve conter as colunas",
     cols |-> <<"lat", "lng", "vel">>]

\* C6: once load_data has failed (unreadable input or a missing required
\* column), process_telemetry_data is not invoked for that upload and the
\* page shows the error message and nothing else.
C6_LoadFailureShortCircuits ==
    (Loaded /\ (Unreadable \/ LacksColumn)) =>
        /\ ~Invoked("process_telemetry_data")
        /\ pc \in {"loaded", "done"}
        /\ Len(page) = 1
        /\ page[1].kind = "error"
        /\ df_processed = EmptyFrame

\* the run of a file that has a row but not the columns, at its end
C6_Witness ==
    /\ pc = "done"
    /\ LacksColumn
    /\ uploaded_file.table.rows # <<>>
    /\ Kinds = {"error"}

\* C7: load_data reports the missing-columns error, naming lat, lng and vel,
\* and returns no rows when one of the three names is not in the header; it
\* returns the table read when the three are there.
C7_MissingColumns ==
    (Loaded /\ uploaded_file.parsable) =>
        IF \E c \in Required : c \notin uploaded_file.table.columns
        THEN df_raw = EmptyFrame /\ page = <<MissingColumnsError>>
        ELSE df_raw = uploaded_file.table /\ "error" \notin Kinds

\* the header latitude, longitude, speed, rejected
C7_Witness ==
    /\ Loaded
    /\ uploaded_file.parsable
    /\ uploaded_file.table.columns = {"latitude", "longitude", "speed"}
    /\ df_raw = EmptyFrame
    /\ page = <<MissingColumnsError>>

\* C10: the run never shows "Falha ao processar os dados."; a run whose load
\* gave a row ends with the charts, the map and the success banner; every
\* run ends with an error of load_data, or the success banner, or (a valid
\* header and no row) nothing at all.
C10_RunOutcomes ==
    /\ \A k \in 1..Len(page) : page[k].text # "Falha ao processar os dados."
    /\ RunEnded =>
          /\ ~Empty(df_raw) =>
                {"speed_chart", "accel_chart", "map", "success"} \subseteq Kinds
          /\ \/ Kinds = {"error"} /\ (Unreadable \/ LacksColumn)
             \/ "success" \in Kinds /\ "error" \notin Kinds
             \/ page = <<>> /\ uploaded_file.parsable
                   /\ Required \subseteq uploaded_file.table.columns
                   /\ uploaded_file.table.rows = <<>>

====
